---- MODULE Spec2Model ----
(***************************************************************************)
(* Decision-and-execution pipeline of the arbitrage bot: the risk gate     *)
(* and kill switch (risk-manager.js), the two-leg executor                 *)
(* (order-executor.js), the scan cycle (index.js) and the approve /        *)
(* cancel / kill-switch / settings entry points (routes.js, websocket).    *)
(*                                                                         *)
(* Node runs one handler at a time and switches handlers only at an await  *)
(* of an exchange or Source call, so one action of this model is one run   *)
(* of a handler from the completion of such a call (or from its start) up  *)
(* to the next call it issues (or to its return).  Money is in cents;      *)
(* prices and spreads are in cents per share.                              *)
(***************************************************************************)
EXTENDS Integers, Sequences, FiniteSets, Bags, TLC

\* ------------------------------------------------------------------ bounds
MaxStarts == 2          \* handler invocations in one behaviour

\* ----------------------------------------------------------------- domains
Markets == {"m1", "m2", "m3"}
MarketLists == {<<>>, <<"m1">>}
Balances == {0, 30, 100}            \* the account's collateral balance
BalanceReplies ==                   \* the exchange answers, or the query fails
  {[ok |-> TRUE, balance |-> b] : b \in Balances}
    \cup {[ok |-> FALSE, balance |-> 100]}
PnLRows ==                          \* today's daily_pnl row, or its absence
  { [exists |-> FALSE, realized_pnl |-> 0, total_trades |-> 0,
     winning_trades |-> 0],
    [exists |-> TRUE, realized_pnl |-> -5000, total_trades |-> 3,
     winning_trades |-> 1],
    [exists |-> TRUE, realized_pnl |-> -5500, total_trades |-> 3,
     winning_trades |-> 1] }
MaxOpenChoices == {1, 2}
NULL == 0                           \* SQL NULL / JS null
Undefined == -2                     \* a JS property that is not there

\* an order book as the detector sees it: best asks and top-5 ask depth
Books ==
  { [yes_ask |-> 45, no_ask |-> 52, yes_liq |-> 500, no_liq |-> 500],
    [yes_ask |-> 45, no_ask |-> 52, yes_liq |-> 60,  no_liq |-> 500],
    [yes_ask |-> 50, no_ask |-> 50, yes_liq |-> 500, no_liq |-> 500],
    [yes_ask |-> NULL, no_ask |-> 52, yes_liq |-> 0, no_liq |-> 500] }
ErrorBook == [yes_ask |-> Undefined, no_ask |-> Undefined, yes_liq |-> 0, no_liq |-> 0]
LegOutcomes == {"ok", "throw"}       \* placeOrder: order accepted, or the call throws
OpenStatuses == {"pending", "placed", "partial"}

\* The ask pairs (yes, no), among those of the order books below, for which
\* the double 1 - (yes + no) is smaller than the double of the decimal
\* spread: 1 - (0.40 + 0.55) is 0.04999999999999993.  For the other pairs
\* the double is the nearest one or lies above it.
SpreadRoundsDown == {<<40, 55>>}

NoOpp ==
  [id |-> NULL, market_id |-> "", yes_price |-> 0, no_price |-> 0,
   total_cost |-> 0, spread |-> 0, expected_profit |-> <<0, 1>>,
   yes_liquidity |-> 0, no_liquidity |-> 0, depth |-> <<0, 0>>,
   status |-> "", due |-> FALSE]

NoSnap ==
  [kill_switch |-> FALSE, auto_mode |-> FALSE, position_size |-> 0,
   profit_threshold |-> 0, daily_loss_limit |-> 0, max_open_positions |-> 0,
   scan_interval_ms |-> 0]

\* config.defaults.scanIntervalMs
scanIntervalMs == 30000

\* what PUT /settings may write into scan_interval_ms (0 stands for 0 and null)
ScanIntervalEdits == {1000, 0}

\* a statement on the database succeeds or raises
DbOutcomes == {"ok", "throw"}

VARIABLES
  settings,        \* the settings row
  pnl,             \* today's daily_pnl row
  trades,          \* the trades table, indexed by id 1..Len
  pending,         \* the pending_approvals table: a set of rows
  nextPendingId,   \* AUTOINCREMENT of pending_approvals
  tasks,           \* bag of handlers suspended at an await
  started,         \* number of handlers started so far
  gateLog,         \* canTrade results returned in the last step
  tradeLog,        \* trades rows inserted in the last step
  execLog,         \* executeTrade returns of the last step
  cancelLog,       \* cancelTrade returns of the last step
  ksLog,           \* activateKillSwitch completions of the last step
  newAlerts,       \* alerts rows inserted in the last step
  emitted,         \* emitter events of the last step
  calls,           \* exchange and Source calls issued in the last step
  detLog,          \* detectOpportunities returns of the last step
  ran,             \* kind of the handler the last step started, "" if none
  thrown,          \* errors that reached a handler's catch in the last step
  crcLog,          \* checkRiskConditions decisions of the last step
  timers,          \* the armed setInterval timers: records [id, period]
  scanInterval,    \* main's timer handle: a timer id or NULL
  exited           \* process.exit was called

vars == <<settings, pnl, trades, pending, nextPendingId, tasks, started,
          gateLog, tradeLog, execLog, cancelLog, ksLog, newAlerts, emitted,
          calls, detLog, ran, thrown, crcLog, timers, scanInterval, exited>>

\* ------------------------------------------------------------ repositories
\* tradesRepo.countOpen
countOpen(trs) ==
  Cardinality({i \in 1..Len(trs) : trs[i].status \in OpenStatuses})

\* pendingRepo.getPending
getPending(pd) == {p \in pd : p.status = "pending"}

\* pendingRepo.getById
getById(pd, id) == {p \in pd : p.id = id}

\* pendingRepo.updateStatus: UPDATE ... WHERE id = ? (no row, no change)
updateStatus(pd, id, st) ==
  {IF p.id = id THEN [p EXCEPT !.status = st] ELSE p : p \in pd}

\* pendingRepo.expireOld
expireOld(pd) ==
  {IF p.status = "pending" /\ p.due THEN [p EXCEPT !.status = "expired"] ELSE p
     : p \in pd}

\* a deleteAll without its WHERE clause
deleteAll_EveryStatus(pd) == {}

\* pendingRepo.deleteAll
deleteAll(pd) == {p \in pd : p.status # "pending"}

\* pendingRepo.create: the row keeps no liquidity column (depth is history:
\* the liquidity the detector saw, which no code reads)
pendingCreate(opp, id) ==
  [opp EXCEPT !.id = id, !.status = "pending",
              !.yes_liquidity = Undefined, !.no_liquidity = Undefined]

\* polymarket-client getBalance: the balance the exchange reports, 0 when
\* the query throws
getBalance(reply) == IF reply.ok THEN reply.balance ELSE 0

\* JS a < b where a may be undefined (NaN comparison is false)
JsLess(a, b) == a # Undefined /\ a < b

\* JS (1 - (yes + no)) < threshold on doubles, for prices and a threshold
\* given in cents
JsSpreadLess(yes, no, threshold) ==
  LET spread == 100 - (yes + no)
  IN \/ spread < threshold
     \/ spread = threshold /\ <<yes, no>> \in SpreadRoundsDown

OrderId(tid, leg) == IF leg = "YES" THEN 2 * tid - 1 ELSE 2 * tid

\* ------------------------------------------------------------ step context
\* The tables, the logs of the step, and t, the handler that is running;
\* live says whether t is suspended at an await when the step ends.
Alert(c, type, severity) ==
  [c EXCEPT !.newAlerts = Append(@, [type |-> type, severity |-> severity])]

Emit(c, ev) == [c EXCEPT !.emitted = Append(@, ev)]

\* a call to the exchange or the Source is issued; the handler awaits it
Call(c, op, arg, pc) ==
  [c EXCEPT !.calls = Append(@, <<op, arg>>), !.t.pc = pc, !.live = TRUE]

Done(c) == [c EXCEPT !.live = FALSE]

NewTask(kind) ==
  [kind |-> kind, pc |-> "start", ret |-> "", reason |-> "", wasOn |-> FALSE,
   snap |-> NoSnap, pnlSnap |-> 0, openSnap |-> 0,
   markets |-> <<>>, found |-> <<>>, opps |-> <<>>, opp |-> NoOpp,
   allowed |-> FALSE, trade |-> NULL, yesOrder |-> NULL, noOrder |-> NULL,
   attempted |-> {}, rb |-> {}, rbOk |-> {},
   snapYes |-> NULL, snapNo |-> NULL, snapStatus |-> "",
   cancelledYes |-> FALSE, cancelledNo |-> FALSE, seen |-> <<>>,
   yesStatus |-> "", noStatus |-> ""]

RECURSIVE ProcessOpportunities(_)

\* ----------------------------------------------------------------- executor
\* executeTrade up to the YES placeOrder call: the trade row is inserted in
\* status pending before any exchange call.  origin is a history field: the
\* queued opportunity the trade comes from (NULL in auto mode).  The log keeps
\* the gate result the caller holds for this opportunity and the kill switch
\* at the insert.
executeTrade(c) ==
  LET opp == c.t.opp
      tid == Len(c.trades) + 1
      row == [market_id |-> opp.market_id, origin |-> opp.id,
              yes_price |-> opp.yes_price, no_price |-> opp.no_price,
              total_cost |-> opp.yes_price + opp.no_price,
              position_size |-> c.settings.position_size,
              expected_profit |-> opp.expected_profit,
              status |-> "pending", yes_order_id |-> NULL, no_order_id |-> NULL,
              settlement_result |-> "", actual_profit |-> NULL]
      l == [trade |-> tid, kind |-> c.t.kind, market_id |-> opp.market_id,
            origin |-> opp.id, allowed |-> c.t.allowed,
            kill_switch |-> c.settings.kill_switch]
  IN Call([c EXCEPT !.trades = Append(@, row), !.tradeLog = Append(@, l),
                    !.t.trade = tid, !.t.allowed = FALSE,
                    !.t.yesOrder = NULL, !.t.noOrder = NULL,
                    !.t.attempted = {"YES"}, !.t.rb = {}, !.t.rbOk = {}],
          "placeOrder", OrderId(tid, "YES"), "exec_yes")

\* what the caller does with executeTrade's result
\*   scan cycle: next opportunity of the for loop
\*   approve (REST and websocket): pending.updateStatus, then the response
AfterExec(c, success) ==
  IF c.t.kind = "scan"
    THEN ProcessOpportunities(c)
    ELSE Done([c EXCEPT !.pending =
                 updateStatus(@, c.t.opp.id,
                              IF success THEN "approved" ELSE "failed")])

ExecReturn(c, success) ==
  LET e == [trade |-> c.t.trade, success |-> success,
            status |-> c.trades[c.t.trade].status,
            yesOrder |-> c.t.yesOrder, noOrder |-> c.t.noOrder,
            attempted |-> c.t.attempted, rb |-> c.t.rb, rbOk |-> c.t.rbOk]
  IN AfterExec([c EXCEPT !.execLog = Append(@, e),
                         !.t.trade = NULL, !.t.yesOrder = NULL,
                         !.t.noOrder = NULL, !.t.attempted = {}, !.t.rb = {},
                         !.t.rbOk = {}],
               success)

\* a catch block that forgets the status update
ExecFailed_KeepsPending(c) ==
  ExecReturn(Alert(c, "error", "error"), FALSE)

\* rollbackTrade after its cancelOrder call returned ok (true, or false when
\* the cancel failed); then the end of the catch block.  rb and rbOk keep the
\* order ids rollbackTrade cancelled and the results it got.
ExecFailed(c) ==
  ExecReturn(Alert([c EXCEPT !.trades[c.t.trade].status = "failed"],
                   "error", "error"),
             FALSE)

\* a rollback that cancels nothing
rollbackTrade_NoCancel(c) == ExecFailed(c)

\* the catch block up to rollbackTrade's first cancelOrder call.  noOrder is
\* null whenever the catch block runs (the only throwing calls of the try
\* block are the two placeOrder calls), so rollbackTrade's second cancel is
\* never issued.
rollbackTrade(c) ==
  IF c.t.yesOrder > NULL
    THEN Call([c EXCEPT !.t.rb = @ \cup {c.t.yesOrder}],
              "cancelOrder", c.t.yesOrder, "rollback_yes")
    ELSE ExecFailed(c)

\* executeTrade from the YES placeOrder result to the NO placeOrder call
AfterYesOrder(c, out) ==
  IF out = "throw"
    THEN rollbackTrade(c)
    ELSE LET oid == OrderId(c.t.trade, "YES")
         IN Call([c EXCEPT !.t.yesOrder = oid,
                           !.trades[c.t.trade].yes_order_id = oid,
                           !.t.attempted = @ \cup {"NO"}],
                 "placeOrder", OrderId(c.t.trade, "NO"), "exec_no")

\* executeTrade from the NO placeOrder result to its return or the rollback
AfterNoOrder(c, out) ==
  IF out = "throw"
    THEN rollbackTrade(c)
    ELSE LET oid == OrderId(c.t.trade, "NO")
             c1 == [c EXCEPT !.t.noOrder = oid,
                             !.trades[c.t.trade].no_order_id = oid,
                             !.trades[c.t.trade].status = "placed"]
         IN ExecReturn(Emit(Alert(c1, "trade", "info"), "trade:created"), TRUE)

\* checkOrderStatus after both getOrder calls: the new status is compared
\* with the status of the trade object the caller passed
CheckFinish(c) ==
  LET ys == c.t.yesStatus
      ns == c.t.noStatus
      newStatus == IF ys = "MATCHED" /\ ns = "MATCHED" THEN "filled"
                   ELSE IF ys = "MATCHED" \/ ns = "MATCHED" THEN "partial"
                   ELSE IF ys = "CANCELLED" \/ ns = "CANCELLED" THEN "cancelled"
                   ELSE c.t.snapStatus
  IN Done(IF newStatus # c.t.snapStatus
            THEN [c EXCEPT !.trades[c.t.trade].status = newStatus]
            ELSE c)

\* checkOrderStatus from the YES getOrder on
CheckNo(c) ==
  IF c.t.snapNo # NULL
    THEN Call(c, "getOrder", c.t.snapNo, "check_no")
    ELSE CheckFinish(c)

\* checkOrderStatus(trade) up to the first await, called with the row of
\* trade tradeId
checkOrderStatus(c, tradeId) ==
  LET row == c.trades[tradeId]
      c1 == [c EXCEPT !.t.trade = tradeId,
                      !.t.snapYes = row.yes_order_id,
                      !.t.snapNo = row.no_order_id,
                      !.t.snapStatus = row.status]
  IN IF row.yes_order_id # NULL
       THEN Call(c1, "getOrder", row.yes_order_id, "check_yes")
       ELSE CheckNo(c1)

\* shares * (1 - total_cost) with shares = position_size / total_cost, in
\* cents (the trades settled here have a profit that is a whole number of
\* cents)
actualProfit(trade) ==
  (trade.position_size * (100 - trade.total_cost)) \div trade.total_cost

\* an incrementTrades that always writes a first row for the day
incrementTrades_AlwaysInserts(row, profit) ==
  [exists |-> TRUE, total_trades |-> 1,
   winning_trades |-> IF profit > 0 THEN 1 ELSE 0, realized_pnl |-> profit]

\* pnlRepo.incrementTrades on today's row
incrementTrades(row, profit) ==
  IF row.exists
    THEN [row EXCEPT !.total_trades = @ + 1,
                     !.winning_trades = @ + (IF profit > 0 THEN 1 ELSE 0),
                     !.realized_pnl = @ + profit]
    ELSE [exists |-> TRUE, total_trades |-> 1,
          winning_trades |-> IF profit > 0 THEN 1 ELSE 0,
          realized_pnl |-> profit]

\* processSettlement(trade, result), called with the row of trade tradeId
processSettlement(c, tradeId, result) ==
  LET trade == c.trades[tradeId]
      profit == actualProfit(trade)
      c1 == [c EXCEPT !.trades[tradeId].status = "settled",
                      !.trades[tradeId].settlement_result = result,
                      !.trades[tradeId].actual_profit = profit,
                      !.pnl = incrementTrades(@, profit)]
  IN Done(Emit(Alert(c1, "settlement", "info"), "trade:settled"))

\* ------------------------------------------------------------- risk manager
\* a scan cycle that queues every allowed opportunity, whatever the mode
AfterGate_AlwaysQueues(c) ==
  IF c.t.kind = "scan"
    THEN IF ~c.t.allowed
           THEN ProcessOpportunities(c)
           ELSE LET row == pendingCreate(c.t.opp, c.nextPendingId)
                    c1 == [c EXCEPT !.pending = @ \cup {row},
                                    !.nextPendingId = @ + 1]
                IN ProcessOpportunities(
                     Emit(Alert(Emit(c1, "opportunity:new"),
                                "opportunity", "info"),
                          "alert:new"))
    ELSE IF ~c.t.allowed
           THEN Done(c)
           ELSE executeTrade(c)

\* an approve handler that executes whatever the gate said
AfterGate_Ungated(c) ==
  IF c.t.kind = "scan"
    THEN IF ~c.t.allowed
           THEN ProcessOpportunities(c)
           ELSE IF c.settings.auto_mode
                  THEN executeTrade(c)
                  ELSE LET row == pendingCreate(c.t.opp, c.nextPendingId)
                           c1 == [c EXCEPT !.pending = @ \cup {row},
                                           !.nextPendingId = @ + 1]
                       IN ProcessOpportunities(
                            Emit(Alert(Emit(c1, "opportunity:new"),
                                       "opportunity", "info"),
                                 "alert:new"))
    ELSE executeTrade(c)

\* an approve handler that marks a denied opportunity failed
AfterGate_DenialFails(c) ==
  IF c.t.kind = "scan"
    THEN IF ~c.t.allowed
           THEN ProcessOpportunities(c)
           ELSE IF c.settings.auto_mode
                  THEN executeTrade(c)
                  ELSE LET row == pendingCreate(c.t.opp, c.nextPendingId)
                           c1 == [c EXCEPT !.pending = @ \cup {row},
                                           !.nextPendingId = @ + 1]
                       IN ProcessOpportunities(
                            Emit(Alert(Emit(c1, "opportunity:new"),
                                       "opportunity", "info"),
                                 "alert:new"))
    ELSE IF ~c.t.allowed
           THEN Done([c EXCEPT !.pending =
                        updateStatus(@, c.t.opp.id, "failed")])
           ELSE executeTrade(c)

\* what the caller does with canTrade's result
\*   scan cycle: denied -> next opportunity; allowed -> re-read the settings,
\*     auto mode executes, manual mode queues the opportunity for approval
\*   approve: denied -> error response; allowed -> executeTrade
AfterGate(c) ==
  IF c.t.kind = "scan"
    THEN IF ~c.t.allowed
           THEN ProcessOpportunities(c)
           ELSE IF c.settings.auto_mode
                  THEN executeTrade(c)
                  ELSE LET row == pendingCreate(c.t.opp, c.nextPendingId)
                           c1 == [c EXCEPT !.pending = @ \cup {row},
                                           !.nextPendingId = @ + 1]
                       IN ProcessOpportunities(
                            Emit(Alert(Emit(c1, "opportunity:new"),
                                       "opportunity", "info"),
                                 "alert:new"))
    ELSE IF ~c.t.allowed
           THEN Done(c)
           ELSE executeTrade(c)

\* canTrade returns {allowed, reason}; the log keeps what it decided on
GateReturn(c, allowed, reason, balance) ==
  LET g == [opp |-> c.t.opp, kill_switch |-> c.t.snap.kill_switch,
            snap |-> c.t.snap, pnl |-> c.t.pnlSnap, open |-> c.t.openSnap,
            balance |-> balance, allowed |-> allowed, reason |-> reason,
            kind |-> c.t.kind]
  IN AfterGate([c EXCEPT !.gateLog = Append(@, g), !.t.allowed = allowed,
                         !.t.snap = NoSnap, !.t.pnlSnap = 0, !.t.openSnap = 0])

\* activateKillSwitch up to the cancelAllOrders call
activateKillSwitch(c, reason, ret) ==
  Call([c EXCEPT !.t.wasOn = c.settings.kill_switch,
                 !.settings.kill_switch = TRUE,
                 !.t.reason = reason, !.t.ret = ret],
       "cancelAll", NULL, "cancel_all")

\* `Maximum open positions reached (${openPositions}/${max_open_positions})`
PositionsReason(open, max) ==
  "Maximum open positions reached (" \o ToString(open) \o "/"
    \o ToString(max) \o ")"

\* a gate without its daily-loss check
canTrade_NoDailyLossCheck(c) ==
  LET s == c.settings
      open == countOpen(c.trades)
      c1 == [c EXCEPT !.t.snap = s, !.t.openSnap = open,
                      !.t.pnlSnap = IF c.pnl.exists THEN c.pnl.realized_pnl ELSE 0]
  IN IF s.kill_switch
       THEN GateReturn(c1, FALSE, "Kill switch is active", Undefined)
     ELSE IF open >= s.max_open_positions
       THEN GateReturn(c1, FALSE, PositionsReason(open, s.max_open_positions),
                       Undefined)
     ELSE Call(c1, "getBalance", NULL, "gate_balance")

\* a gate without its kill-switch check
canTrade_NoKillSwitchCheck(c) ==
  LET s == c.settings
      open == countOpen(c.trades)
      c1 == [c EXCEPT !.t.snap = s, !.t.openSnap = open,
                      !.t.pnlSnap = IF c.pnl.exists THEN c.pnl.realized_pnl ELSE 0]
  IN IF c.pnl.exists /\ c.pnl.realized_pnl < -s.daily_loss_limit
       THEN activateKillSwitch(c1, "Daily loss limit exceeded", "gate")
     ELSE IF open >= s.max_open_positions
       THEN GateReturn(c1, FALSE, PositionsReason(open, s.max_open_positions),
                       Undefined)
     ELSE Call(c1, "getBalance", NULL, "gate_balance")

\* canTrade up to the getBalance call (checks 1, 3 and 4)
canTrade(c) ==
  LET s == c.settings
      open == countOpen(c.trades)
      c1 == [c EXCEPT !.t.snap = s, !.t.openSnap = open,
                      !.t.pnlSnap = IF c.pnl.exists THEN c.pnl.realized_pnl ELSE 0]
  IN IF s.kill_switch
       THEN GateReturn(c1, FALSE, "Kill switch is active", Undefined)
     ELSE IF c.pnl.exists /\ c.pnl.realized_pnl < -s.daily_loss_limit
       THEN activateKillSwitch(c1, "Daily loss limit exceeded", "gate")
     ELSE IF open >= s.max_open_positions
       THEN GateReturn(c1, FALSE, PositionsReason(open, s.max_open_positions),
                       Undefined)
     ELSE Call(c1, "getBalance", NULL, "gate_balance")

\* canTrade from the getBalance result on (checks 5, 6 and 7), decided on the
\* settings row read before the await
AfterGateBalance(c, balance) ==
  LET s == c.t.snap
      opp == c.t.opp
      minLiquidity == s.position_size * 2
  IN IF balance < s.position_size
       THEN GateReturn(c, FALSE, "Insufficient balance", balance)
     ELSE IF JsSpreadLess(opp.yes_price, opp.no_price, s.profit_threshold)
       THEN GateReturn(c, FALSE, "Below profit threshold", balance)
     ELSE IF JsLess(opp.yes_liquidity, minLiquidity)
             \/ JsLess(opp.no_liquidity, minLiquidity)
       THEN GateReturn(c, FALSE, "Insufficient liquidity", balance)
     ELSE GateReturn(c, TRUE, "", balance)

\* checkRiskConditions returns to its caller: the scan cycle returns when it
\* triggered and goes on to scanMarkets when not
CrcReturn(c, triggered) ==
  IF c.t.kind = "scan" /\ ~triggered
    THEN Call(c, "scanMarkets", NULL, "scan_markets")
    ELSE Done(c)

\* a scan cycle that goes on after its risk evaluation tripped the switch
AfterCancelAll_CycleGoesOn(c, ok) ==
  LET k == [reason |-> c.t.reason, wasOn |-> c.t.wasOn, cancelAllOk |-> ok,
            deleted |-> getPending(c.pending), ret |-> c.t.ret]
      c1 == Alert([c EXCEPT !.pending = deleteAll(@),
                            !.ksLog = Append(@, k),
                            !.t.wasOn = FALSE, !.t.reason = "", !.t.ret = ""],
                  "kill_switch", "critical")
  IN IF c.t.ret = "gate"
       THEN GateReturn(c1, FALSE, "Daily loss limit exceeded", Undefined)
     ELSE IF c.t.ret = "crc"
       THEN Call(Emit(c1, "kill_switch:activated"),
                 "scanMarkets", NULL, "scan_markets")
     ELSE Done(Emit(c1, "kill_switch:activated"))

\* activateKillSwitch from the cancelAllOrders result on, then its caller:
\* canTrade denies, checkRiskConditions returns true (the cycle ends), the
\* toggle request answers
AfterCancelAll(c, ok) ==
  LET k == [reason |-> c.t.reason, wasOn |-> c.t.wasOn, cancelAllOk |-> ok,
            deleted |-> getPending(c.pending), ret |-> c.t.ret]
      c1 == Alert([c EXCEPT !.pending = deleteAll(@),
                            !.ksLog = Append(@, k),
                            !.t.wasOn = FALSE, !.t.reason = "", !.t.ret = ""],
                  "kill_switch", "critical")
  IN IF c.t.ret = "gate"
       THEN GateReturn(c1, FALSE, "Daily loss limit exceeded", Undefined)
     ELSE IF c.t.ret = "crc"
       THEN CrcReturn(Emit(c1, "kill_switch:activated"), TRUE)
     ELSE Done(Emit(c1, "kill_switch:activated"))

\* a deactivation that clears the approval queue as an activation does
deactivateKillSwitch_ClearsQueue(c) ==
  Emit(Alert([c EXCEPT !.settings.kill_switch = FALSE,
                       !.pending = deleteAll(@)],
             "kill_switch", "info"),
       "kill_switch:deactivated")

\* deactivateKillSwitch (no await)
deactivateKillSwitch(c) ==
  Emit(Alert([c EXCEPT !.settings.kill_switch = FALSE], "kill_switch", "info"),
       "kill_switch:deactivated")

\* a toggle that activates whatever the flag says
toggleKillSwitch_AlwaysActivates(c) ==
  activateKillSwitch(c, "Manual activation", "toggle")

\* toggleKillSwitch and the request handler around it
toggleKillSwitch(c) ==
  IF c.settings.kill_switch
    THEN Done(deactivateKillSwitch(c))
    ELSE activateKillSwitch(c, "Manual activation", "toggle")

\* getRiskStatus up to its getBalance call, as checkRiskConditions calls it
getRiskStatus(c) ==
  Call([c EXCEPT !.t.snap = c.settings,
                 !.t.pnlSnap = IF c.pnl.exists THEN c.pnl.realized_pnl ELSE 0,
                 !.t.openSnap = countOpen(c.trades)],
       "getBalance", NULL, "risk_balance")

\* the can_trade flag of the status getRiskStatus returns
can_trade(s, dailyPnL, openPositions, balance) ==
  LET lossLimitRemaining == s.daily_loss_limit + dailyPnL
  IN /\ ~s.kill_switch
     /\ openPositions < s.max_open_positions
     /\ balance >= s.position_size
     /\ lossLimitRemaining > 0

\* a checkRiskConditions that wants the balance to cover a whole position
checkRiskConditions_FullPosition(c, reply) ==
  LET s == c.t.snap
      balance == getBalance(reply)
      lossLimitRemaining == s.daily_loss_limit + c.t.pnlSnap
      d == [status |-> s, pnl |-> c.t.pnlSnap, balance |-> balance,
            account |-> reply.balance]
      c1 == [c EXCEPT !.t.snap = NoSnap, !.t.pnlSnap = 0, !.t.openSnap = 0,
                      !.crcLog = Append(@, d)]
  IN IF s.kill_switch
       THEN CrcReturn(c1, FALSE)
     ELSE IF lossLimitRemaining <= 0
       THEN activateKillSwitch(c1, "Daily loss limit exceeded", "crc")
     ELSE IF balance < s.position_size
       THEN activateKillSwitch(c1, "Low balance warning", "crc")
     ELSE CrcReturn(c1, FALSE)

\* the rest of getRiskStatus and checkRiskConditions; when nothing triggers,
\* checkRiskConditions returns false and the scan cycle goes on to
\* scanMarkets.  The log keeps the status getRiskStatus built and, as
\* history, the balance the account held when it was queried.
checkRiskConditions(c, reply) ==
  LET s == c.t.snap
      balance == getBalance(reply)
      lossLimitRemaining == s.daily_loss_limit + c.t.pnlSnap
      d == [status |-> s, pnl |-> c.t.pnlSnap, balance |-> balance,
            account |-> reply.balance]
      c1 == [c EXCEPT !.t.snap = NoSnap, !.t.pnlSnap = 0, !.t.openSnap = 0,
                      !.crcLog = Append(@, d)]
  IN IF s.kill_switch
       THEN CrcReturn(c1, FALSE)
     ELSE IF lossLimitRemaining <= 0
       THEN activateKillSwitch(c1, "Daily loss limit exceeded", "crc")
     ELSE IF 2 * balance < s.position_size
       THEN activateKillSwitch(c1, "Low balance warning", "crc")
     ELSE CrcReturn(c1, FALSE)

\* ----------------------------------------------------------------- detector
\* an analyzeMarket whose expected profit forgets the number of shares
analyzeMarket_ProfitPerDollar(market, book, s) ==
  IF book = ErrorBook \/ book.yes_ask = NULL \/ book.no_ask = NULL
    THEN NoOpp
    ELSE LET totalCost == book.yes_ask + book.no_ask
             spread == 100 - totalCost
         IN IF JsSpreadLess(book.yes_ask, book.no_ask, s.profit_threshold)
              THEN NoOpp
              ELSE [id |-> NULL, market_id |-> market,
                    yes_price |-> book.yes_ask, no_price |-> book.no_ask,
                    total_cost |-> totalCost, spread |-> spread,
                    expected_profit |-> <<s.position_size * spread, 100>>,
                    yes_liquidity |-> book.yes_liq, no_liquidity |-> book.no_liq,
                    depth |-> <<book.yes_liq, book.no_liq>>,
                    status |-> "", due |-> FALSE]

\* analyzeMarket on the books it fetched, with the settings it read before
\* the fetch; NoOpp stands for null.  expected_profit is the fraction
\* position_size * spread / total_cost.
analyzeMarket(market, book, s) ==
  IF book = ErrorBook \/ book.yes_ask = NULL \/ book.no_ask = NULL
    THEN NoOpp
    ELSE LET totalCost == book.yes_ask + book.no_ask
             spread == 100 - totalCost
         IN IF JsSpreadLess(book.yes_ask, book.no_ask, s.profit_threshold)
              THEN NoOpp
              ELSE [id |-> NULL, market_id |-> market,
                    yes_price |-> book.yes_ask, no_price |-> book.no_ask,
                    total_cost |-> totalCost, spread |-> spread,
                    expected_profit |-> <<s.position_size * spread, totalCost>>,
                    yes_liquidity |-> book.yes_liq, no_liquidity |-> book.no_liq,
                    depth |-> <<book.yes_liq, book.no_liq>>,
                    status |-> "", due |-> FALSE]

\* a detector that returns the opportunities in the order it found them
SortBySpread_AsFound(q) == q

\* opportunities.sort((a, b) => b.spread - a.spread): stable, spread descending
RECURSIVE SortBySpread(_)
SortBySpread(q) ==
  IF q = <<>> THEN <<>>
  ELSE LET rest == SortBySpread(Tail(q))
           x == Head(q)
           before == SelectSeq(rest, LAMBDA o : o.spread > x.spread)
           after == SelectSeq(rest, LAMBDA o : o.spread <= x.spread)
       IN before \o <<x>> \o after

\* ------------------------------------------------------------- scan cycle
\* the end of the cycle: expireOld, then the balance refresh
FinishCycle(c) ==
  Call([c EXCEPT !.pending = expireOld(@), !.t.opp = NoOpp,
                 !.t.allowed = FALSE],
       "getBalance", NULL, "final_balance")

\* the for loop over the opportunities, from the current position up to the
\* next await
ProcessOpportunities(c) ==
  IF c.t.opps = <<>>
    THEN FinishCycle(c)
    ELSE LET opp == Head(c.t.opps)
             c1 == [c EXCEPT !.t.opps = Tail(@), !.t.opp = opp,
                             !.t.allowed = FALSE]
         IN IF \E p \in getPending(c.pending) : p.market_id = opp.market_id
              THEN ProcessOpportunities(c1)
              ELSE canTrade(c1)

\* a scan cycle that does not look at the kill switch
runScanningLoop_NoKillCheck(c) == getRiskStatus(c)

\* runScanningLoop up to the first await
runScanningLoop(c) ==
  IF c.settings.kill_switch THEN Done(c) ELSE getRiskStatus(c)

\* detectOpportunities: the next analyzeMarket reads the settings and fetches
\* the two books
detectNext(c) ==
  Call([c EXCEPT !.t.snap = c.settings], "getOrderBook", NULL, "order_books")

\* detectOpportunities returns the sorted list to its caller: the scan cycle
\* begins its for loop.  The log keeps, per market, the books fetched, the
\* settings read and what analyzeMarket returned, and the markets not analysed.
DetectReturn(c) ==
  LET result == SortBySpread(c.t.found)
      d == [seen |-> c.t.seen, left |-> c.t.markets, result |-> result]
      c1 == [c EXCEPT !.detLog = Append(@, d), !.t.markets = <<>>,
                      !.t.found = <<>>, !.t.seen = <<>>, !.t.snap = NoSnap]
  IN IF c.t.kind = "scan"
       THEN ProcessOpportunities([c1 EXCEPT !.t.opps = result])
       ELSE Done(c1)

\* detectOpportunities up to the first await
detectOpportunities(c, markets) ==
  LET c1 == [c EXCEPT !.t.markets = markets, !.t.found = <<>>, !.t.seen = <<>>]
  IN IF markets = <<>> THEN DetectReturn(c1) ELSE detectNext(c1)

\* runScanningLoop after scanMarkets returned
AfterScanMarkets(c, markets) ==
  IF markets = <<>> THEN Done(c) ELSE detectOpportunities(c, markets)

\* detectOpportunities: one analyzeMarket finished; the next one starts, or
\* the list is sorted and returned
AfterOrderBooks(c, book) ==
  LET market == Head(c.t.markets)
      opp == analyzeMarket(market, book, c.t.snap)
      found == IF opp = NoOpp THEN c.t.found ELSE Append(c.t.found, opp)
      a == [market |-> market, book |-> book, snap |-> c.t.snap, result |-> opp]
      c1 == [c EXCEPT !.t.markets = Tail(@), !.t.found = found,
                      !.t.seen = Append(@, a)]
  IN IF c1.t.markets # <<>> THEN detectNext(c1) ELSE DetectReturn(c1)

\* a catch block that only prints the error
ScanCatch_NoAlert(c, site) ==
  Done([c EXCEPT !.thrown = Append(@, site)])

\* the catch block of runScanningLoop: the error is logged as an alert
ScanCatch(c, site) ==
  Done(Alert([c EXCEPT !.thrown = Append(@, site)], "error", "error"))

\* ------------------------------------------------------------- scan timer
\* settings.scan_interval_ms || config.defaults.scanIntervalMs
Interval(s) ==
  IF s.scan_interval_ms # 0 THEN s.scan_interval_ms ELSE scanIntervalMs

\* setInterval hands out a handle not in use
FreshTimer(tms) ==
  CHOOSE i \in 1..(Cardinality(tms) + 1) : \A tm \in tms : tm.id # i

\* stopScanning: clearInterval on the handle, if there is one
stopScanning(c) ==
  IF c.scanInterval # NULL
    THEN [c EXCEPT !.timers = {tm \in @ : tm.id # c.scanInterval},
                   !.scanInterval = NULL]
    ELSE c

\* startScanning: a scan cycle runs at once, up to its first await, and a
\* timer is armed with the interval read before it
startScanning(c) ==
  LET interval == Interval(c.settings)
      c1 == runScanningLoop([c EXCEPT !.t = NewTask("scan")])
      id == FreshTimer(c1.timers)
  IN [c1 EXCEPT !.timers = @ \cup {[id |-> id, period |-> interval]},
                !.scanInterval = id]

\* main's 'settings:changed' listener, handed the updated row
settingsChanged(c) ==
  IF c.settings.scan_interval_ms # 0
    THEN startScanning(stopScanning(c))
    ELSE Done(c)

\* process.exit
Exit(c) == [c EXCEPT !.exited = TRUE, !.live = FALSE]

\* the SIGINT handler up to its await
sigint(c) ==
  LET c1 == stopScanning(c)
  IN IF ~c1.settings.kill_switch
       THEN Call(c1, "cancelAll", NULL, "exit_cancel_all")
       ELSE Exit(c1)

\* the SIGTERM handler
sigterm(c) == Exit(stopScanning(c))

\* ---------------------------------------------------------- request handlers
\* POST /opportunities/:id/approve and socket 'opportunity:approve' up to the
\* first await
approve(c, id) ==
  LET rows == getById(c.pending, id)
  IN IF rows = {} \/ (\A p \in rows : p.status # "pending")
       THEN Done(c)
       ELSE canTrade([c EXCEPT !.t.opp = CHOOSE p \in rows : TRUE])

\* a cancelTrade that marks the trade cancelled only when both cancels worked
CancelFinish_OnlyIfCancelled(c) ==
  LET c1 == IF c.t.cancelledYes /\ c.t.cancelledNo
              THEN [c EXCEPT !.trades[c.t.trade].status = "cancelled"]
              ELSE c
      e == [trade |-> c.t.trade, success |-> TRUE, was |-> c.t.snapStatus,
            status |-> c1.trades[c.t.trade].status,
            cancelledYes |-> c.t.cancelledYes, cancelledNo |-> c.t.cancelledNo]
  IN Done(Emit(Alert([c1 EXCEPT !.cancelLog = Append(@, e)],
                     "trade", "warning"),
               "trade:cancelled"))

\* the end of cancelTrade; the log keeps what it returns and the status of
\* the row it read at its start
CancelFinish(c) ==
  LET c1 == [c EXCEPT !.trades[c.t.trade].status = "cancelled"]
      e == [trade |-> c.t.trade, success |-> TRUE, was |-> c.t.snapStatus,
            status |-> c1.trades[c.t.trade].status,
            cancelledYes |-> c.t.cancelledYes, cancelledNo |-> c.t.cancelledNo]
  IN Done(Emit(Alert([c1 EXCEPT !.cancelLog = Append(@, e)],
                     "trade", "warning"),
               "trade:cancelled"))

\* cancelTrade from the YES cancel on
CancelNo(c) ==
  IF c.t.snapNo # NULL
    THEN Call(c, "cancelOrder", c.t.snapNo, "cancel_no")
    ELSE CancelFinish(c)

\* cancelTrade up to the first await; the leg ids are those of the row read
\* at the start
cancelTrade(c, tradeId) ==
  IF tradeId \notin 1..Len(c.trades)
    THEN Done(c)
    ELSE LET row == c.trades[tradeId]
             c1 == [c EXCEPT !.t.trade = tradeId,
                             !.t.snapYes = row.yes_order_id,
                             !.t.snapNo = row.no_order_id,
                             !.t.snapStatus = row.status]
         IN IF row.yes_order_id # NULL
              THEN Call(c1, "cancelOrder", row.yes_order_id, "cancel_yes")
              ELSE CancelNo(c1)

\* -------------------------------------------------------------------- steps
Ctx(t) ==
  [settings |-> settings, pnl |-> pnl, trades |-> trades, pending |-> pending,
   nextPendingId |-> nextPendingId,
   gateLog |-> <<>>, tradeLog |-> <<>>, execLog |-> <<>>,
   cancelLog |-> <<>>, ksLog |-> <<>>,
   newAlerts |-> <<>>, emitted |-> <<>>, calls |-> <<>>, detLog |-> <<>>,
   thrown |-> <<>>, crcLog |-> <<>>, timers |-> timers, scanInterval |-> scanInterval,
   exited |-> FALSE, t |-> t, live |-> FALSE]

\* the tables and logs after the step; others is the bag of the handlers
\* that did not run
Commit(c, others) ==
  /\ settings' = c.settings
  /\ pnl' = c.pnl
  /\ trades' = c.trades
  /\ pending' = c.pending
  /\ nextPendingId' = c.nextPendingId
  /\ gateLog' = c.gateLog
  /\ tradeLog' = c.tradeLog
  /\ calls' = c.calls
  /\ execLog' = c.execLog
  /\ cancelLog' = c.cancelLog
  /\ ksLog' = c.ksLog
  /\ newAlerts' = c.newAlerts
  /\ emitted' = c.emitted
  /\ detLog' = c.detLog
  /\ thrown' = c.thrown
  /\ crcLog' = c.crcLog
  /\ exited' = c.exited
  /\ timers' = IF c.exited THEN {} ELSE c.timers
  /\ scanInterval' = IF c.exited THEN NULL ELSE c.scanInterval
  /\ tasks' = IF c.exited THEN EmptyBag
            ELSE IF c.live THEN others (+) SetToBag({c.t}) ELSE others

\* a new handler runs up to its first await (or to its end)
Start(c) ==
  /\ ~exited
  /\ started < MaxStarts
  /\ started' = started + 1
  /\ ran' = c.t.kind
  /\ Commit(c, tasks)

\* a suspended handler t runs on from the result of the call it awaits
Resume(t, c) ==
  /\ ~exited
  /\ started' = started
  /\ ran' = ""
  /\ Commit(c, tasks (-) SetToBag({t}))

Suspended(pc) == {t \in BagToSet(tasks) : t.pc = pc}

\* The database file outlives the process: at start the settings are the
\* schema defaults or an earlier edit of them, and pending_approvals is empty
\* or holds an opportunity that an earlier run queued in manual mode.
InitSettings ==
  [kill_switch : {FALSE}, auto_mode : BOOLEAN,
   position_size : {50}, profit_threshold : {1}, daily_loss_limit : {5000},
   max_open_positions : MaxOpenChoices, scan_interval_ms : {5000}]

QueuedBefore(s) ==
  pendingCreate(
    analyzeMarket("m1", [yes_ask |-> 45, no_ask |-> 52,
                         yes_liq |-> 500, no_liq |-> 500], s),
    1)

Init ==
  /\ settings \in InitSettings
  /\ pnl \in PnLRows
  /\ trades = <<>>
  /\ \/ pending = {} /\ nextPendingId = 1
     \/ pending = {QueuedBefore(settings)} /\ nextPendingId = 2
  /\ tasks = EmptyBag
  /\ started = 0
  /\ gateLog = <<>>
  /\ tradeLog = <<>>
  /\ calls = <<>>
  /\ execLog = <<>>
  /\ cancelLog = <<>>
  /\ ksLog = <<>>
  /\ newAlerts = <<>>
  /\ emitted = <<>>
  /\ detLog = <<>>
  /\ ran = ""
  /\ thrown = <<>>
  /\ crcLog = <<>>
  /\ timers = {[id |-> 1, period |-> Interval(settings)]}
  /\ scanInterval = 1
  /\ exited = FALSE

\* the scan timer fires
ScanTick ==
  \E tm \in timers : Start(runScanningLoop(Ctx(NewTask("scan"))))

\* getBalance returned to getRiskStatus; the next statement on the database
\* (the settings update of an activation, or the settings read of
\* scanMarkets) may raise, which runScanningLoop catches
RiskBalance ==
  \E t \in Suspended("risk_balance"), db \in DbOutcomes :
    IF db = "throw"
      THEN Resume(t, ScanCatch(Ctx(t), "risk"))
      ELSE \E r \in BalanceReplies :
             Resume(t, checkRiskConditions(Ctx(t), r))

ScanMarketsReturns ==
  \E t \in Suspended("scan_markets"), ms \in MarketLists :
    Resume(t, AfterScanMarkets(Ctx(t), ms))

OrderBooksReturn ==
  \E t \in Suspended("order_books"), book \in Books \cup {ErrorBook} :
    Resume(t, AfterOrderBooks(Ctx(t), book))

GateBalance ==
  \E t \in Suspended("gate_balance"),
     b \in {getBalance(r) : r \in BalanceReplies} :
    Resume(t, AfterGateBalance(Ctx(t), b))

CancelAllReturns ==
  \E t \in Suspended("cancel_all"), ok \in BOOLEAN :
    Resume(t, AfterCancelAll(Ctx(t), ok))

YesOrderReturns ==
  \E t \in Suspended("exec_yes"), out \in LegOutcomes :
    Resume(t, AfterYesOrder(Ctx(t), out))

NoOrderReturns ==
  \E t \in Suspended("exec_no"), out \in LegOutcomes :
    Resume(t, AfterNoOrder(Ctx(t), out))

\* cancelOrder never throws: it returns true or false, and rollbackTrade
\* ignores which
RollbackCancelReturns ==
  \E t \in Suspended("rollback_yes"), ok \in BOOLEAN :
    Resume(t, ExecFailed([Ctx(t) EXCEPT !.t.rbOk = @ \cup {ok}]))

\* the balance that ends a cycle is broadcast as it comes, whatever it is
FinalBalance ==
  \E t \in Suspended("final_balance") :
    Resume(t, Done(Emit(Ctx(t), "balance:update")))

ApproveRest ==
  \E id \in 1..nextPendingId : Start(approve(Ctx(NewTask("approve_rest")), id))

ApproveSocket ==
  \E id \in 1..nextPendingId : Start(approve(Ctx(NewTask("approve_ws")), id))

\* both reject entry points end in pending.updateStatus(id, 'rejected')
Reject ==
  \E id \in 1..nextPendingId :
    Start(Done([Ctx(NewTask("reject")) EXCEPT
                  !.pending = updateStatus(@, id, "rejected")]))

CancelRequest ==
  \E id \in 1..(Len(trades) + 1) : Start(cancelTrade(Ctx(NewTask("cancel")), id))

CancelYesReturns ==
  \E t \in Suspended("cancel_yes"), ok \in BOOLEAN :
    Resume(t, CancelNo([Ctx(t) EXCEPT !.t.cancelledYes = ok]))

CancelNoReturns ==
  \E t \in Suspended("cancel_no"), ok \in BOOLEAN :
    Resume(t, CancelFinish([Ctx(t) EXCEPT !.t.cancelledNo = ok]))

KillSwitchRequest == Start(toggleKillSwitch(Ctx(NewTask("toggle"))))

\* PUT /settings and socket 'settings:update': the update, then the
\* 'settings:changed' listener of main restarts the scan timer, which runs a
\* scan cycle at once (the row it is handed always has a scan_interval_ms)
UpdateSettings ==
  \E f \in {"auto_mode", "kill_switch"}, v \in BOOLEAN :
    Start(settingsChanged(
            Emit([Ctx(NewTask("settings")) EXCEPT !.settings[f] = v],
                 "settings:changed")))

\* the same with a new scan_interval_ms
UpdateScanInterval ==
  \E v \in ScanIntervalEdits :
    Start(settingsChanged(
            Emit([Ctx(NewTask("settings")) EXCEPT
                    !.settings.scan_interval_ms = v],
                 "settings:changed")))

Sigint == Start(sigint(Ctx(NewTask("sigint"))))

Sigterm == Start(sigterm(Ctx(NewTask("sigterm"))))

\* cancelAllOrders returned (true or false) to the SIGINT handler
ExitCancelAllReturns ==
  \E t \in Suspended("exit_cancel_all"), ok \in BOOLEAN :
    Resume(t, Exit(Ctx(t)))

\* the expires_at of a queued opportunity passes
ExpiryPasses ==
  /\ ~exited
  /\ \E p \in pending :
       /\ ~p.due
       /\ pending' = (pending \ {p}) \cup {[p EXCEPT !.due = TRUE]}
  /\ gateLog' = <<>> /\ tradeLog' = <<>> /\ execLog' = <<>>
  /\ cancelLog' = <<>> /\ ksLog' = <<>>
  /\ newAlerts' = <<>> /\ emitted' = <<>> /\ calls' = <<>>
  /\ detLog' = <<>> /\ ran' = "" /\ thrown' = <<>>
  /\ crcLog' = <<>>
  /\ UNCHANGED <<settings, pnl, trades, nextPendingId, tasks, started,
                 timers, scanInterval, exited>>

Next ==
  \/ ScanTick
  \/ RiskBalance
  \/ ScanMarketsReturns
  \/ OrderBooksReturn
  \/ GateBalance
  \/ CancelAllReturns
  \/ YesOrderReturns
  \/ NoOrderReturns
  \/ RollbackCancelReturns
  \/ FinalBalance
  \/ ApproveRest
  \/ ApproveSocket
  \/ Reject
  \/ CancelRequest
  \/ CancelYesReturns
  \/ CancelNoReturns
  \/ KillSwitchRequest
  \/ UpdateSettings
  \/ ExpiryPasses

Spec == Init /\ [][Next]_vars

\* the same program when nobody edits the settings or toggles the kill switch
NextFixedSettings ==
  \/ ScanTick
  \/ RiskBalance
  \/ ScanMarketsReturns
  \/ OrderBooksReturn
  \/ GateBalance
  \/ CancelAllReturns
  \/ YesOrderReturns
  \/ NoOrderReturns
  \/ RollbackCancelReturns
  \/ FinalBalance
  \/ ApproveRest
  \/ ApproveSocket
  \/ Reject
  \/ CancelRequest
  \/ CancelYesReturns
  \/ CancelNoReturns
  \/ ExpiryPasses

SpecFixedSettings == Init /\ [][NextFixedSettings]_vars

\* the program with its stop signals and edits of the scan interval
NextLifecycle ==
  \/ Next
  \/ UpdateScanInterval
  \/ Sigint
  \/ Sigterm
  \/ ExitCancelAllReturns

SpecLifecycle == Init /\ [][NextLifecycle]_vars

\* ------------------------------------------------- the detector on its own
\* detectOpportunities called on lists of up to three markets, over books
\* with a spread above, at and below the threshold, a negative spread, a
\* side without asks, and a failing fetch, while the settings are edited
\* between the fetches.
DetMarketLists == {<<>>, <<"m1">>, <<"m1", "m2">>, <<"m1", "m2", "m3">>}

DetBooks ==
  { [yes_ask |-> 45, no_ask |-> 52, yes_liq |-> 500, no_liq |-> 500],
    [yes_ask |-> 40, no_ask |-> 55, yes_liq |-> 500, no_liq |-> 500],
    [yes_ask |-> 45, no_ask |-> 50, yes_liq |-> 500, no_liq |-> 60],
    [yes_ask |-> 60, no_ask |-> 55, yes_liq |-> 500, no_liq |-> 500],
    [yes_ask |-> NULL, no_ask |-> 52, yes_liq |-> 0, no_liq |-> 500],
    [yes_ask |-> 45, no_ask |-> NULL, yes_liq |-> 500, no_liq |-> 0] }

DetSettings ==
  { [kill_switch |-> FALSE, auto_mode |-> FALSE, position_size |-> 50,
     profit_threshold |-> 1, daily_loss_limit |-> 5000,
     max_open_positions |-> 10, scan_interval_ms |-> 5000],
    [kill_switch |-> FALSE, auto_mode |-> FALSE, position_size |-> 1000,
     profit_threshold |-> 5, daily_loss_limit |-> 5000,
     max_open_positions |-> 10, scan_interval_ms |-> 5000] }

InitDetector ==
  /\ settings \in DetSettings
  /\ pnl = [exists |-> FALSE, realized_pnl |-> 0, total_trades |-> 0,
            winning_trades |-> 0]
  /\ trades = <<>>
  /\ pending = {} /\ nextPendingId = 1
  /\ tasks = EmptyBag
  /\ started = 0
  /\ gateLog = <<>>
  /\ tradeLog = <<>>
  /\ calls = <<>>
  /\ execLog = <<>>
  /\ cancelLog = <<>>
  /\ ksLog = <<>>
  /\ newAlerts = <<>>
  /\ emitted = <<>>
  /\ detLog = <<>>
  /\ ran = ""
  /\ thrown = <<>>
  /\ crcLog = <<>>
  /\ timers = {}
  /\ scanInterval = NULL
  /\ exited = FALSE

\* one call at a time: the calls share no state
DetectCall ==
  /\ tasks = EmptyBag
  /\ \E ms \in DetMarketLists :
       Start(detectOpportunities(Ctx(NewTask("detect")), ms))

DetectBooksReturn ==
  \E t \in Suspended("order_books"), book \in DetBooks \cup {ErrorBook} :
    Resume(t, AfterOrderBooks(Ctx(t), book))

\* the settings row is edited while a fetch is awaited
DetectSettingsEdit ==
  /\ tasks # EmptyBag
  /\ \E row \in DetSettings \ {settings} : settings' = row
  /\ gateLog' = <<>> /\ tradeLog' = <<>> /\ execLog' = <<>>
  /\ cancelLog' = <<>> /\ ksLog' = <<>>
  /\ newAlerts' = <<>> /\ emitted' = <<>> /\ calls' = <<>>
  /\ detLog' = <<>> /\ ran' = "" /\ thrown' = <<>>
  /\ crcLog' = <<>>
  /\ UNCHANGED <<pnl, trades, pending, nextPendingId, tasks, started,
                 timers, scanInterval, exited>>

NextDetector ==
  \/ DetectCall
  \/ DetectBooksReturn
  \/ DetectSettingsEdit

SpecDetector == InitDetector /\ [][NextDetector]_vars

\* ---------------------------------------- checkRiskConditions on its own
\* checkRiskConditions called with the kill switch on or off, with and
\* without a queued opportunity, while the kill switch is toggled.
InitRisk ==
  /\ settings \in [kill_switch : BOOLEAN, auto_mode : {FALSE},
                    position_size : {50}, profit_threshold : {1},
                    daily_loss_limit : {5000}, max_open_positions : {1},
                    scan_interval_ms : {5000}]
  /\ pnl \in PnLRows
  /\ trades = <<>>
  /\ \/ pending = {} /\ nextPendingId = 1
     \/ /\ ~settings.kill_switch
        /\ pending = {QueuedBefore(settings)} /\ nextPendingId = 2
  /\ tasks = EmptyBag
  /\ started = 0
  /\ gateLog = <<>>
  /\ tradeLog = <<>>
  /\ calls = <<>>
  /\ execLog = <<>>
  /\ cancelLog = <<>>
  /\ ksLog = <<>>
  /\ newAlerts = <<>>
  /\ emitted = <<>>
  /\ detLog = <<>>
  /\ ran = ""
  /\ thrown = <<>>
  /\ crcLog = <<>>
  /\ timers = {}
  /\ scanInterval = NULL
  /\ exited = FALSE

CheckRisk == Start(getRiskStatus(Ctx(NewTask("risk"))))

RiskStatusReturns ==
  \E t \in Suspended("risk_balance"), r \in BalanceReplies :
    Resume(t, checkRiskConditions(Ctx(t), r))

NextRisk ==
  \/ CheckRisk
  \/ RiskStatusReturns
  \/ CancelAllReturns
  \/ KillSwitchRequest

SpecRisk == InitRisk /\ [][NextRisk]_vars

\* ------------------------------------- reconciliation and settlement alone
\* checkOrderStatus, processSettlement and cancelTrade called on one trade
\* row in any status of the schema, with prices that cost less than, exactly
\* and more than one dollar per pair of shares.
TradeStatuses ==
  {"pending", "placed", "partial", "filled", "cancelled", "failed", "settled"}

SettlementResults == {"YES", "NO"}

OrderStatuses == {"MATCHED", "CANCELLED", "LIVE", ""}

SettledTrades ==
  { [market_id |-> "m1", origin |-> NULL,
     yes_price |-> pr[1], no_price |-> pr[2], total_cost |-> pr[1] + pr[2],
     position_size |-> ps, expected_profit |-> <<ps * (100 - (pr[1] + pr[2])),
                                                 pr[1] + pr[2]>>,
     status |-> st,
     yes_order_id |-> IF st \in {"pending", "failed"} THEN NULL
                      ELSE OrderId(1, "YES"),
     no_order_id |-> IF st \in {"pending", "failed"} THEN NULL
                     ELSE OrderId(1, "NO"),
     settlement_result |-> IF st = "settled" THEN "YES" ELSE "",
     actual_profit |-> IF st = "settled"
                         THEN (ps * (100 - (pr[1] + pr[2]))) \div (pr[1] + pr[2])
                         ELSE NULL]
    : pr \in {<<20, 30>>, <<45, 55>>, <<60, 65>>}, ps \in {50, 100},
      st \in TradeStatuses }

InitSettlement ==
  /\ settings \in {s \in DetSettings : s.profit_threshold = 1}
  /\ pnl \in PnLRows
  /\ trades \in {<<row>> : row \in SettledTrades}
  /\ pending = {} /\ nextPendingId = 1
  /\ tasks = EmptyBag
  /\ started = 0
  /\ gateLog = <<>>
  /\ tradeLog = <<>>
  /\ calls = <<>>
  /\ execLog = <<>>
  /\ cancelLog = <<>>
  /\ ksLog = <<>>
  /\ newAlerts = <<>>
  /\ emitted = <<>>
  /\ detLog = <<>>
  /\ ran = ""
  /\ thrown = <<>>
  /\ crcLog = <<>>
  /\ timers = {}
  /\ scanInterval = NULL
  /\ exited = FALSE

Settle ==
  \E id \in 1..Len(trades), result \in SettlementResults :
    Start(processSettlement(Ctx(NewTask("settle")), id, result))

CheckRequest ==
  \E id \in 1..Len(trades) :
    Start(checkOrderStatus(Ctx(NewTask("check")), id))

CheckYesReturns ==
  \E t \in Suspended("check_yes"), st \in OrderStatuses :
    Resume(t, CheckNo([Ctx(t) EXCEPT !.t.yesStatus = st]))

CheckNoReturns ==
  \E t \in Suspended("check_no"), st \in OrderStatuses :
    Resume(t, CheckFinish([Ctx(t) EXCEPT !.t.noStatus = st]))

NextSettlement ==
  \/ Settle
  \/ CheckRequest
  \/ CheckYesReturns
  \/ CheckNoReturns
  \/ CancelRequest
  \/ CancelYesReturns
  \/ CancelNoReturns

SpecSettlement == InitSettlement /\ [][NextSettlement]_vars

Range(q) == {q[i] : i \in 1..Len(q)}

\* ------------------------------------------------------------------ claims

\* C1: whenever the settings row canTrade reads has kill_switch on, canTrade
\* returns allowed = false with the reason 'Kill switch is active', whatever
\* the opportunity, today's P&L, the open-position count and the balance are.
C1_KillSwitchDenies ==
  \A g \in Range(gateLog) :
    g.kill_switch => (~g.allowed /\ g.reason = "Kill switch is active")

\* a gate evaluation with the kill switch on, for an opportunity of a scan
\* cycle that started while it was off
C1_Witness ==
  \E g \in Range(gateLog) :
    g.kill_switch /\ g.kind = "scan" /\ g.opp.spread >= g.snap.profit_threshold

\* C2: every trades row is inserted by an executeTrade call whose caller (scan
\* cycle in auto mode, REST approve, websocket approve) holds a passing gate
\* result for that same opportunity, obtained in the same iteration or request.
C2_TradeOnlyAfterGate ==
  /\ \A l \in Range(tradeLog) : l.allowed
  /\ \A t \in BagToSet(tasks) :
       t.pc = "exec_yes" => t.kind \in {"scan", "approve_rest", "approve_ws"}

\* a trade inserted by a websocket approve
C2_Witness ==
  \E l \in Range(tradeLog) : l.kind = "approve_ws" /\ l.allowed /\ l.origin # NULL

\* C3 (as claimed): with nobody editing the settings, the number of trades in
\* status pending, placed or partial never exceeds max_open_positions.
C3_OpenWithinLimit == countOpen(trades) <= settings.max_open_positions

\* C4 (as claimed): at most one trade is ever created from a queued opportunity.
C4_OneTradePerOpportunity ==
  \A i \in 1..Len(trades), j \in 1..Len(trades) :
    (trades[i].origin # NULL /\ trades[i].origin = trades[j].origin) => i = j

\* C5 (as claimed): when executeTrade inserts a trade the kill switch is off.
C5_NoTradeWhileKilled ==
  \A l \in Range(tradeLog) : ~l.kill_switch

\* C6: when executeTrade returns, its trade is placed (exactly when both legs
\* were accepted, and then it returns success) or failed, never pending.
C6_NeverLeftPending ==
  \A e \in Range(execLog) :
    /\ e.status \in {"placed", "failed"}
    /\ trades[e.trade].status # "pending"
    /\ (e.status = "placed") = (e.yesOrder # NULL /\ e.noOrder # NULL)
    /\ e.success = (e.status = "placed")

\* an executeTrade that returns after its rollback cancel failed
C6_Witness ==
  \E e \in Range(execLog) : e.status = "failed" /\ e.rbOk = {FALSE}

\* C7: if the NO placement fails after the YES placement succeeded,
\* executeTrade returns failure with the trade failed, and rollbackTrade has
\* called cancelOrder for the YES order id before the trade is marked failed,
\* whether that cancel returns true or false.
C7_RollbackCancelsYes ==
  /\ \A e \in Range(execLog) :
       (e.yesOrder # NULL /\ e.noOrder = NULL) =>
         /\ ~e.success
         /\ e.status = "failed"
         /\ e.rb = {e.yesOrder}
         /\ e.yesOrder = trades[e.trade].yes_order_id
  /\ \A t \in BagToSet(tasks) :
       t.pc = "rollback_yes" =>
         /\ t.rb = {t.yesOrder}
         /\ trades[t.trade].status # "failed"

\* the NO leg failed after the YES leg was placed, and the cancel failed too
C7_Witness ==
  \E e \in Range(execLog) :
    e.yesOrder # NULL /\ e.noOrder = NULL /\ e.rbOk = {FALSE} /\ e.status = "failed"

\* C8 (as claimed): if the YES placement fails, the NO leg is not attempted,
\* the trade ends failed, and the rollback issues exactly one cancel, for the
\* YES leg.
C8_YesFailureCancelsYes ==
  \A e \in Range(execLog) :
    e.yesOrder = NULL =>
      /\ "NO" \notin e.attempted
      /\ e.status = "failed"
      /\ Cardinality(e.rb) = 1

\* C9: a cancelTrade on a trade whose executeTrade has returned (the row it
\* reads is placed or failed) leaves the trade cancelled when it returns,
\* whatever the two cancelOrder calls return.
C9_CancelAfterExecute ==
  \A e \in Range(cancelLog) :
    e.was \in {"placed", "failed"} =>
      (e.success /\ e.status = "cancelled"
       /\ trades[e.trade].status = "cancelled")

\* a placed trade is cancelled and both cancelOrder calls return false
C9_Witness ==
  \E e \in Range(cancelLog) :
    e.was = "placed" /\ ~e.cancelledYes /\ ~e.cancelledNo
    /\ trades[e.trade].status = "cancelled"

\* C10 (as claimed): an activateKillSwitch that starts with the kill switch
\* already on changes no opportunity record.
C10_ReactivationChangesNothing ==
  \A k \in Range(ksLog) : k.wasOn => k.deleted = {}

C12_DailyLossActivatesAndDenies ==
  /\ \A g \in Range(gateLog) :
       (~g.snap.kill_switch /\ g.pnl < -g.snap.daily_loss_limit) =>
         /\ ~g.allowed
         /\ g.reason = "Daily loss limit exceeded"
         /\ \E k \in Range(ksLog) :
              k.ret = "gate" /\ k.reason = "Daily loss limit exceeded"
              /\ ~k.wasOn
  /\ (/\ <<"cancelAll", NULL>> \in Range(calls)
      /\ \E t \in BagToSet(tasks) : t.pc = "cancel_all" /\ t.ret = "gate")
       => settings.kill_switch

\* canTrade denies on the daily loss and returns with the kill switch on
C12_Witness ==
  \E g \in Range(gateLog) :
    /\ ~g.snap.kill_switch /\ g.pnl < -g.snap.daily_loss_limit
    /\ g.reason = "Daily loss limit exceeded"
    /\ settings.kill_switch

\* C12 (as claimed): in that case kill_switch is on when canTrade returns.
C12_KillSwitchOnAtReturn ==
  \A g \in Range(gateLog) :
    (~g.snap.kill_switch /\ g.pnl < -g.snap.daily_loss_limit) =>
      (~g.allowed /\ g.reason = "Daily loss limit exceeded"
       /\ settings.kill_switch)

\* C13 (as claimed): canTrade allows exactly when the kill switch is off,
\* today's P&L is at least -daily_loss_limit, the open positions are below
\* max_open_positions, the balance is at least position_size, the spread is
\* at least profit_threshold and both sides' liquidity is at least twice
\* position_size; a denial carries the reason of the first check that fails,
\* in that order, the open-position one naming both figures.
C13_GateExact ==
  \A g \in Range(gateLog) :
    LET s == g.snap
        killOff == ~s.kill_switch
        lossOk == g.pnl >= -s.daily_loss_limit
        openOk == g.open < s.max_open_positions
        balanceOk == g.balance # Undefined /\ g.balance >= s.position_size
        spreadOk == g.opp.spread >= s.profit_threshold
        liquidityOk ==
          /\ g.opp.yes_liquidity # Undefined
          /\ g.opp.no_liquidity # Undefined
          /\ g.opp.yes_liquidity >= 2 * s.position_size
          /\ g.opp.no_liquidity >= 2 * s.position_size
    IN /\ g.allowed = (killOff /\ lossOk /\ openOk /\ balanceOk
                        /\ spreadOk /\ liquidityOk)
       /\ ~g.allowed =>
            g.reason =
              IF ~killOff THEN "Kill switch is active"
              ELSE IF ~lossOk THEN "Daily loss limit exceeded"
              ELSE IF ~openOk
                THEN PositionsReason(g.open, s.max_open_positions)
              ELSE IF ~balanceOk THEN "Insufficient balance"
              ELSE IF ~spreadOk THEN "Below profit threshold"
              ELSE "Insufficient liquidity"

\* C14 (as claimed): for books that were fetched, analyzeMarket returns no
\* opportunity exactly when a side has no asks or the spread 1 - (yes + no)
\* is strictly below the profit_threshold it read; a spread equal to the
\* threshold yields an opportunity.
C14_NoneExactlyBelowThreshold ==
  \A d \in Range(detLog) : \A a \in Range(d.seen) :
    a.book # ErrorBook =>
      ((a.result = NoOpp) =
         (\/ a.book.yes_ask = NULL
          \/ a.book.no_ask = NULL
          \/ 100 - (a.book.yes_ask + a.book.no_ask) < a.snap.profit_threshold))

\* C15: every opportunity the detector returns has yes_price and no_price
\* equal to the first ask of each book, total_cost = yes_price + no_price,
\* spread = 1 - total_cost and expected_profit = (position_size / total_cost)
\* x spread, position_size being the setting its analyzeMarket read.  (Cents
\* and an exact fraction here; the code evaluates the same expressions on
\* doubles.)
C15_OpportunityArithmetic ==
  \A d \in Range(detLog) :
    /\ \A r \in Range(d.result) : \E a \in Range(d.seen) : a.result = r
    /\ \A a \in Range(d.seen) :
         a.result # NoOpp =>
           LET r == a.result
           IN /\ r.market_id = a.market
              /\ r.yes_price = a.book.yes_ask
              /\ r.no_price = a.book.no_ask
              /\ r.total_cost = r.yes_price + r.no_price
              /\ r.spread = 100 - r.total_cost
              /\ r.expected_profit[2] > 0
              /\ r.expected_profit[1] * r.total_cost
                   = a.snap.position_size * r.spread * r.expected_profit[2]

\* an opportunity is returned after position_size was edited during the
\* fetch of its books
C15_Witness ==
  \E d \in Range(detLog) : \E a \in Range(d.seen) :
    /\ a.result # NoOpp
    /\ a.result \in Range(d.result)
    /\ a.snap.position_size # settings.position_size

\* C16: detectOpportunities analyses every market of its list and returns
\* exactly the opportunities its analyzeMarket calls returned, one per
\* qualifying market, ordered by spread descending; a market whose fetch
\* fails yields no opportunity and the markets after it are still analysed
\* and returned.
C16_BatchIsSortedSubset ==
  \A d \in Range(detLog) :
    LET qualifying == {i \in 1..Len(d.seen) : d.seen[i].result # NoOpp}
    IN /\ d.left = <<>>
       /\ \A i \in 1..Len(d.seen) :
            d.seen[i].book = ErrorBook => i \notin qualifying
       /\ Len(d.result) = Cardinality(qualifying)
       /\ \A i \in qualifying : d.seen[i].result \in Range(d.result)
       /\ \A j \in 1..Len(d.result), k \in 1..Len(d.result) :
            j < k => d.result[j].spread >= d.result[k].spread

\* the fetch of the first market fails, the two others qualify and come back
\* in the other order
C16_Witness ==
  \E d \in Range(detLog) :
    /\ Len(d.seen) = 3
    /\ d.seen[1].book = ErrorBook
    /\ Len(d.result) = 2
    /\ d.result[1].market_id = "m3"
    /\ d.result[2].market_id = "m2"

\* C17: a scan cycle the timer starts while kill_switch is on changes no
\* settings, trade or opportunity record (it expires nothing), creates no
\* alert, makes no Source or exchange call, emits nothing and leaves no
\* handler behind.
C17_KilledCycleDoesNothing ==
  [][ (ScanTick /\ settings.kill_switch) =>
        /\ UNCHANGED <<settings, pnl, trades, pending, nextPendingId, tasks>>
        /\ calls' = <<>>
        /\ emitted' = <<>>
        /\ newAlerts' = <<>> ]_vars

\* a timer tick with the kill switch on while a queued opportunity is past
\* its expiry and still pending
C17_Witness ==
  /\ ran = "scan"
  /\ "settings:changed" \notin Range(emitted)
  /\ settings.kill_switch
  /\ \E p \in pending : p.status = "pending" /\ p.due

\* C18: when the risk evaluation at the start of a scan cycle activates the
\* kill switch, the cycle ends there: it creates no trade and no pending
\* opportunity (the activation clears the pending ones), fetches no markets,
\* detects nothing, refreshes no balance, and is no longer in flight.
C18_TrippedCycleStops ==
  [][ (\E k \in Range(ksLog') : k.ret = "crc") =>
        /\ settings' = settings
        /\ trades' = trades
        /\ pending' = {p \in pending : p.status # "pending"}
        /\ nextPendingId' = nextPendingId
        /\ calls' = <<>>
        /\ detLog' = <<>> /\ gateLog' = <<>> /\ tradeLog' = <<>>
        /\ emitted' = <<"kill_switch:activated">>
        /\ BagCardinality(tasks') = BagCardinality(tasks) - 1
        /\ \A t \in BagToSet(tasks') : CopiesIn(t, tasks') <= CopiesIn(t, tasks)
     ]_vars

\* the risk evaluation of a cycle tripped the switch on a low balance while
\* another handler was in flight
C18_Witness ==
  /\ \E k \in Range(ksLog) :
       k.ret = "crc" /\ k.reason = "Low balance warning" /\ ~k.wasOn
  /\ tasks # EmptyBag

\* C19 (as claimed): at every moment at most one opportunity per market_id
\* is in status pending.
C19_OnePendingPerMarket ==
  \A p \in getPending(pending), q \in getPending(pending) :
    p.market_id = q.market_id => p = q

\* C20: when the gate allows an opportunity of a scan cycle, the settings
\* row as it is then (not as the gate read it) decides: with auto_mode on the
\* cycle inserts one trade for it through executeTrade, whose first order
\* goes out, and queues nothing; with auto_mode off it inserts exactly one
\* pending opportunity for it, emits 'opportunity:new' and creates an
\* 'opportunity' alert of severity info, and inserts no trade and places no
\* order.
C20_ModeDecidesRoute ==
  [][ \A g \in Range(gateLog') :
        (g.kind = "scan" /\ g.allowed) =>
          IF settings.auto_mode
            THEN /\ Len(tradeLog') = 1
                 /\ tradeLog'[1].market_id = g.opp.market_id
                 /\ tradeLog'[1].origin = NULL
                 /\ Len(trades') = Len(trades) + 1
                 /\ calls' = <<<<"placeOrder", OrderId(Len(trades'), "YES")>>>>
                 /\ {p.id : p \in pending'} = {p.id : p \in pending}
                 /\ nextPendingId' = nextPendingId
                 /\ "opportunity:new" \notin Range(emitted')
            ELSE /\ trades' = trades
                 /\ tradeLog' = <<>>
                 /\ \A k \in Range(calls') : k[1] # "placeOrder"
                 /\ nextPendingId' = nextPendingId + 1
                 /\ {p.id : p \in pending'}
                      = {p.id : p \in pending} \cup {nextPendingId}
                 /\ \A p \in pending' :
                      p.id = nextPendingId =>
                        /\ p.status = "pending"
                        /\ p.market_id = g.opp.market_id
                        /\ p.yes_price = g.opp.yes_price
                        /\ p.no_price = g.opp.no_price
                 /\ Cardinality(pending') = Cardinality(pending) + 1
                 /\ Cardinality({i \in 1..Len(emitted') :
                                   emitted'[i] = "opportunity:new"}) = 1
                 /\ [type |-> "opportunity", severity |-> "info"]
                      \in Range(newAlerts')
     ]_vars

\* the gate read auto_mode on, the mode was switched off while it awaited
\* the balance, and the opportunity was queued
C20_Witness ==
  /\ \E g \in Range(gateLog) :
       g.kind = "scan" /\ g.allowed /\ g.snap.auto_mode
  /\ ~settings.auto_mode
  /\ "opportunity:new" \in Range(emitted)
  /\ trades = <<>>


C22_ApproveOutcome ==
  /\ \A i \in 1..Len(execLog) :
       LET e == execLog[i]
           origin == trades[e.trade].origin
       IN origin # NULL =>
            \E p \in pending :
              /\ p.id = origin
              /\ p.status = IF e.success THEN "approved" ELSE "failed"
  /\ ran = "reject" => tradeLog = <<>> /\ calls = <<>>


\* C23: an opportunity whose status is approved, rejected or expired is, after
\* any step, still in the table with the same status.
C23_TerminalOpportunityFrozen ==
  [][\A p \in pending :
       p.status \in {"approved", "rejected", "expired"} =>
         \E q \in pending' : q.id = p.id /\ q.status = p.status]_vars


\* C24: in every step, every trade keeps its status or moves along
\* pending -> placed -> {partial, filled} -> settled, or moves to failed or
\* cancelled from a status that is not settled, cancelled or failed; so a
\* trade never leaves settled, cancelled or failed, and only a partial or
\* filled trade becomes settled.
C24_TradeLifecycle ==
  [][\A i \in 1..Len(trades) :
       LET a == trades[i].status
           b == trades'[i].status
       IN \/ a = b
          \/ <<a, b>> \in {<<"pending", "placed">>, <<"placed", "partial">>,
                            <<"placed", "filled">>, <<"partial", "filled">>,
                            <<"partial", "settled">>, <<"filled", "settled">>}
          \/ /\ b \in {"failed", "cancelled"}
             /\ a \notin {"settled", "cancelled", "failed"}]_vars


\* C25: a step that runs processSettlement on a trade with some result
\* leaves that trade settled with that settlement_result and with
\* actual_profit = (position_size / total_cost) * (1 - total_cost) of the
\* trade's own values, changes nothing else of the trade, and moves the
\* day's aggregate by one trade, by one win exactly when actual_profit > 0,
\* and by actual_profit, whether the day's row was there or not.
C25_SettlementBookkeeping ==
  [][ran' = "settle" =>
       \E i \in 1..Len(trades), result \in SettlementResults :
         LET tr == trades[i]
             profit == (tr.position_size * (100 - tr.total_cost))
                         \div tr.total_cost
             before == IF pnl.exists
                         THEN pnl
                         ELSE [exists |-> TRUE, total_trades |-> 0,
                               winning_trades |-> 0, realized_pnl |-> 0]
         IN /\ tr.total_cost * profit
                 = tr.position_size * (100 - tr.total_cost)
            /\ trades' = [trades EXCEPT
                            ![i] = [tr EXCEPT !.status = "settled",
                                              !.settlement_result = result,
                                              !.actual_profit = profit]]
            /\ pnl'.exists
            /\ pnl'.total_trades = before.total_trades + 1
            /\ pnl'.winning_trades
                 = before.winning_trades + (IF profit > 0 THEN 1 ELSE 0)
            /\ pnl'.realized_pnl = before.realized_pnl + profit]_vars

C25_Witness ==
  /\ ran = "settle"
  /\ pnl.total_trades > 1
  /\ pnl.winning_trades = 2
  /\ \E i \in 1..Len(trades) :
       trades[i].status = "settled" /\ trades[i].actual_profit > 0


\* C26: the step that handles SIGINT or SIGTERM leaves no scan timer armed;
\* while the SIGINT handler is waiting, no step changes the settings, the
\* trades or the queued opportunities; and the process exits either with the
\* kill switch on or after the cancel-all call its signal handler issued has
\* returned.
C26_ShutdownOrder ==
  [][/\ ran' \in {"sigint", "sigterm"} => timers' = {}
     /\ (\E t \in BagToSet(tasks) : t.kind = "sigint") =>
          settings' = settings /\ trades' = trades /\ pending' = pending
     /\ (~exited /\ exited') =>
          \/ settings.kill_switch
          \/ \E t \in BagToSet(tasks) : t.pc = "exit_cancel_all" /\ ran' = ""
    ]_vars


\* C27: as long as no stop signal was handled, exactly one scan timer is
\* armed, it is the one main holds the handle of, and its period is the scan
\* interval of the current settings.
C27_OneTimerCurrentPeriod ==
  (~exited /\ ~\E t \in BagToSet(tasks) : t.kind = "sigint") =>
    \E tm \in timers :
      /\ timers = {tm}
      /\ tm.id = scanInterval
      /\ tm.period = Interval(settings)


C29_Serialized ==
  [][ran' \in {"scan", "approve_rest", "approve_ws", "cancel"} =>
       \A t \in BagToSet(tasks) :
         t.kind \in {"scan", "approve_rest", "approve_ws", "cancel"} =>
           t.pc = "final_balance"]_vars


\* C30: activateKillSwitch sets kill_switch on before it awaits the
\* cancel-all call, and whatever that call returns it goes on: the step that
\* completes it removes exactly the opportunities in status pending, leaves
\* every other opportunity, every trade and the settings as they are, and
\* inserts the critical alert.  (kill_switch is on at that step unless it was
\* turned off while cancel-all was awaited.)
C30_ActivationCompletes ==
  [][/\ \/ settings'.kill_switch
        \/ \A t \in BagToSet(tasks') :
             t.pc = "cancel_all" => t \in BagToSet(tasks)
     /\ \A i \in 1..Len(ksLog') :
          /\ \E t \in BagToSet(tasks) : t.pc = "cancel_all"
          /\ ksLog'[i].deleted = getPending(pending)
          /\ pending' = {p \in pending : p.status # "pending"}
          /\ trades' = trades
          /\ settings' = settings
          /\ [type |-> "kill_switch", severity |-> "critical"]
               \in Range(newAlerts')
    ]_vars

C30_Witness ==
  /\ \E i \in 1..Len(ksLog) :
       ~ksLog[i].cancelAllOk /\ ksLog[i].deleted # {}
  /\ settings.kill_switch
  /\ getPending(pending) = {}

\* C30 as stated: kill_switch is on whenever an activation completes.
C30_CompletesWithKillSwitchOn ==
  ksLog # <<>> => settings.kill_switch


\* C31: the step that completes a kill-switch activation, whoever started it
\* (the toggle, checkRiskConditions, or canTrade on the daily-loss check),
\* inserts a critical kill_switch alert and emits 'kill_switch:activated'.
C31_ActivationAlertsAndNotifies ==
  ksLog # <<>> =>
    /\ [type |-> "kill_switch", severity |-> "critical"] \in Range(newAlerts)
    /\ "kill_switch:activated" \in Range(emitted)


\* C32: the step in which canTrade returns allowed = false for a reason
\* other than 'Daily loss limit exceeded' changes no settings and no trade;
\* in an approve request it changes no opportunity either (the approved one
\* stays as it was), and in a scan cycle the only change to the
\* opportunities is the expiry that ends the cycle.
C32_DenialChangesNothing ==
  [][\A i \in 1..Len(gateLog') :
       LET g == gateLog'[i]
       IN (~g.allowed /\ g.reason # "Daily loss limit exceeded") =>
            /\ settings' = settings
            /\ trades' = trades
            /\ IF g.kind = "scan"
                 THEN pending' \in {pending, expireOld(pending)}
                 ELSE pending' = pending]_vars

C32_Witness ==
  \E i \in 1..Len(gateLog) :
    /\ ~gateLog[i].allowed
    /\ gateLog[i].kind = "approve_rest"
    /\ gateLog[i].reason = "Insufficient balance"
    /\ \E p \in pending : p.id = gateLog[i].opp.id /\ p.status = "pending"

\* C32 as stated: no denial changes any state.
C32_EveryDenialChangesNothing ==
  [][\A i \in 1..Len(gateLog') :
       ~gateLog'[i].allowed =>
         /\ settings' = settings
         /\ trades' = trades
         /\ IF gateLog'[i].kind = "scan"
              THEN pending' \in {pending, expireOld(pending)}
              ELSE pending' = pending]_vars


\* ---- approval of an opportunity queued under a smaller position_size ----

\* An opportunity found in one of the books and queued by a manual-mode scan
\* cycle when position_size was half of what it is now.
QueuedUnderHalf(s, book) ==
  pendingCreate(
    analyzeMarket("m1", book, [s EXCEPT !.position_size = s.position_size \div 2]),
    1)

InitApproval ==
  /\ settings \in {s \in InitSettings : ~s.auto_mode}
  /\ pnl \in PnLRows
  /\ trades = <<>>
  /\ \E book \in {b \in Books : b.yes_ask # NULL /\ b.yes_ask + b.no_ask < 100} :
        pending = {QueuedUnderHalf(settings, book)}
  /\ nextPendingId = 2
  /\ tasks = EmptyBag
  /\ started = 0
  /\ gateLog = <<>>
  /\ tradeLog = <<>>
  /\ calls = <<>>
  /\ execLog = <<>>
  /\ cancelLog = <<>>
  /\ ksLog = <<>>
  /\ newAlerts = <<>>
  /\ emitted = <<>>
  /\ detLog = <<>>
  /\ ran = ""
  /\ thrown = <<>>
  /\ crcLog = <<>>
  /\ timers = {}
  /\ scanInterval = NULL
  /\ exited = FALSE

NextApproval ==
  \/ ApproveRest
  \/ ApproveSocket
  \/ GateBalance
  \/ CancelAllReturns
  \/ YesOrderReturns
  \/ NoOrderReturns
  \/ RollbackCancelReturns

SpecApproval == InitApproval /\ [][NextApproval]_vars

\* C33 (as claimed): the gate run by an approve request denies the queued
\* opportunity for liquidity whenever the depth of either side seen at
\* detection is below twice the position_size the gate reads: such a request
\* is never allowed, and when the earlier checks pass its denial reads
\* 'Insufficient liquidity'.
C33_ApprovalChecksLiquidity ==
  \A g \in Range(gateLog) :
    (/\ g.kind \in {"approve_rest", "approve_ws"}
     /\ \/ g.opp.depth[1] < 2 * g.snap.position_size
        \/ g.opp.depth[2] < 2 * g.snap.position_size) =>
      /\ ~g.allowed
      /\ g.reason \in {"Kill switch is active", "Daily loss limit exceeded",
                       PositionsReason(g.open, g.snap.max_open_positions),
                       "Insufficient balance", "Below profit threshold",
                       "Insufficient liquidity"}


\* C34 (as claimed): the risk status and the gate agree: whenever canTrade
\* allows an opportunity, the status built from the same settings, P&L, open
\* positions and balance has can_trade = true; so when the status says
\* can_trade = false, canTrade denies.
C34_SnapshotAndGateAgree ==
  \A g \in Range(gateLog) :
    g.allowed => can_trade(g.snap, g.pnl, g.open, g.balance)


\* C35 (as claimed): whenever kill_switch is on, no opportunity is in status
\* pending.
C35_NoPendingWhileKillSwitchOn ==
  settings.kill_switch => \A p \in pending : p.status # "pending"


\* C36 (as claimed): an approve request that found its opportunity past
\* expires_at (and not yet marked expired by a scan cycle) creates no trade.
C36_ExpiredNeverExecuted ==
  \A l \in Range(tradeLog) : \A g \in Range(gateLog) :
    (g.kind \in {"approve_rest", "approve_ws"} /\ g.opp.id = l.origin) =>
      ~g.opp.due


\* C37 (as claimed): a balance query that failed starts no 'Low balance
\* warning' activation when the account holds at least half a position: a
\* risk evaluation starts that activation only if the account's balance is
\* below 0.5 * position_size.
C37_FailedQueryDoesNotHalt ==
  [][\A i \in 1..Len(crcLog') :
       2 * crcLog'[i].account >= crcLog'[i].status.position_size =>
         \A t \in BagToSet(tasks') :
           (t.pc = "cancel_all" /\ t.reason = "Low balance warning") =>
             CopiesIn(t, tasks') <= CopiesIn(t, tasks)]_vars


\* ---- a day whose aggregate starts in step with its trades ----

RECURSIVE SettledProfit(_)
\* the sum of actual_profit over the settled trades
SettledProfit(trs) ==
  IF trs = <<>> THEN 0
  ELSE (IF Head(trs).status = "settled" THEN Head(trs).actual_profit ELSE 0)
         + SettledProfit(Tail(trs))

SettledCount(trs) == Cardinality({i \in 1..Len(trs) : trs[i].status = "settled"})

InitLedger ==
  /\ settings \in {s \in DetSettings : s.profit_threshold = 1}
  /\ trades \in {<<row>> : row \in SettledTrades}
  /\ pnl = IF SettledCount(trades) = 0
             THEN [exists |-> FALSE, realized_pnl |-> 0, total_trades |-> 0,
                   winning_trades |-> 0]
             ELSE [exists |-> TRUE, realized_pnl |-> SettledProfit(trades),
                   total_trades |-> SettledCount(trades),
                   winning_trades |->
                     Cardinality({i \in 1..Len(trades) :
                                    /\ trades[i].status = "settled"
                                    /\ trades[i].actual_profit > 0})]
  /\ pending = {} /\ nextPendingId = 1
  /\ tasks = EmptyBag
  /\ started = 0
  /\ gateLog = <<>>
  /\ tradeLog = <<>>
  /\ calls = <<>>
  /\ execLog = <<>>
  /\ cancelLog = <<>>
  /\ ksLog = <<>>
  /\ newAlerts = <<>>
  /\ emitted = <<>>
  /\ detLog = <<>>
  /\ ran = ""
  /\ thrown = <<>>
  /\ crcLog = <<>>
  /\ timers = {}
  /\ scanInterval = NULL
  /\ exited = FALSE

SpecLedger == InitLedger /\ [][NextSettlement]_vars

\* C38 (as claimed): within one day, after any sequence of settlements,
\* reconciliations and cancel requests, the day's total_trades is the number
\* of trades in status settled and its realized_pnl is the sum of their
\* actual_profit.
C38_AggregateMatchesTrades ==
  /\ pnl.total_trades = SettledCount(trades)
  /\ pnl.realized_pnl = SettledProfit(trades)


\* ---- scan cycles one after the other, and nothing else ----

\* the scan timer fires when no cycle is in flight
ScanTickAlone == tasks = EmptyBag /\ ScanTick

NextSequentialScans ==
  \/ ScanTickAlone
  \/ RiskBalance
  \/ ScanMarketsReturns
  \/ OrderBooksReturn
  \/ GateBalance
  \/ CancelAllReturns
  \/ YesOrderReturns
  \/ NoOrderReturns
  \/ RollbackCancelReturns
  \/ FinalBalance

SpecSequentialScans == Init /\ [][NextSequentialScans]_vars

\* C39 (as claimed): at every moment at most one trade per market is open
\* (pending, placed or partial).
C39_OneOpenTradePerMarket ==
  \A i, j \in 1..Len(trades) :
    (/\ trades[i].market_id = trades[j].market_id
     /\ trades[i].status \in OpenStatuses
     /\ trades[j].status \in OpenStatuses) => i = j


\* C40: a toggle request flips kill_switch from the value it reads.  With
\* the switch on it deactivates: the flag goes off, an info alert and
\* 'kill_switch:deactivated', no exchange call, the tables as they were.
\* With the switch off it starts an activation with the reason 'Manual
\* activation': the flag goes on and cancel-all is sent; and the step that
\* completes this activation clears the pending opportunities, inserts the
\* critical alert and emits 'kill_switch:activated'.  Each toggle negating
\* the flag, two toggles in a row leave the value the first one read.
C40_ToggleFlips ==
  [][/\ ran' = "toggle" =>
          /\ settings' = [settings EXCEPT !.kill_switch = ~settings.kill_switch]
          /\ trades' = trades /\ pnl' = pnl /\ pending' = pending
          /\ IF settings.kill_switch
               THEN /\ newAlerts' = <<[type |-> "kill_switch", severity |-> "info"]>>
                    /\ emitted' = <<"kill_switch:deactivated">>
                    /\ calls' = <<>>
                    /\ tasks' = tasks
               ELSE /\ calls' = << <<"cancelAll", NULL>> >>
                    /\ newAlerts' = <<>> /\ emitted' = <<>>
                    /\ \E t \in BagToSet(tasks') :
                         /\ t.kind = "toggle" /\ t.pc = "cancel_all"
                         /\ t.reason = "Manual activation"
                         /\ tasks' = tasks (+) SetToBag({t})
     /\ \A i \in 1..Len(ksLog') :
          ksLog'[i].ret = "toggle" =>
            /\ ksLog'[i].reason = "Manual activation"
            /\ getPending(pending') = {}
            /\ newAlerts' = <<[type |-> "kill_switch", severity |-> "critical"]>>
            /\ emitted' = <<"kill_switch:activated">>
    ]_vars

\* a second toggle has just switched off what the first one, still waiting
\* for its cancel-all, switched on
C40_Witness ==
  /\ ran = "toggle"
  /\ ~settings.kill_switch
  /\ "kill_switch:deactivated" \in Range(emitted)
  /\ \E t \in BagToSet(tasks) :
       t.kind = "toggle" /\ t.pc = "cancel_all" /\ t.reason = "Manual activation"


\* ---- the three ways into activateKillSwitch, without the scan cycle ----
\* toggle requests, standing risk evaluations and the gate of approve
\* requests, with reject requests that leave rows the activation must keep
NextKillSwitch ==
  \/ KillSwitchRequest
  \/ CheckRisk
  \/ RiskStatusReturns
  \/ ApproveRest
  \/ GateBalance
  \/ CancelAllReturns
  \/ YesOrderReturns
  \/ NoOrderReturns
  \/ RollbackCancelReturns
  \/ Reject

SpecKillSwitch == InitRisk /\ [][NextKillSwitch]_vars

====
